---- MODULE Spec2Model ----
(***************************************************************************)
(* Real-time messaging core of the art marketplace backend: the message    *)
(* store, the block relation, the presence tracker, the content-safety     *)
(* analyzer and the chat protocol handler (socket events and their REST    *)
(* counterparts).                                                          *)
(*                                                                         *)
(* Every asynchronous handler is cut at its awaits: one action per         *)
(* continuation, so that handlers of different connections (and several    *)
(* handlers of one connection) interleave at the suspension points.        *)
(* The document store is taken to be reliable: a persistence call throws   *)
(* only when the code itself makes it throw (a malformed id).              *)
(***************************************************************************)
EXTENDS Integers, Sequences, FiniteSets, TLC

\* ------------------------------------------------------------------ bounds
MaxTasks == 2       \* handler invocations suspended at an await at once
MaxMessages == 2    \* messages the store may hold under Spec
BlockMessages == 1  \* messages the store may hold under SpecBlock
ReadMessages == 2   \* messages the store may hold under SpecRead
MaxClock == 5       \* the clock's last value
StoreMessages == 2  \* messages the store may hold under SpecStore
PresenceMessages == 1  \* messages the store may hold under SpecPresence
TypingMessages == 1    \* messages sent in SpecTyping
AnalyzerMessages == 2  \* messages the store may hold under SpecAnalyzer

\* ------------------------------------------------------------- identifiers
\* Ids are strings, modelled as sequences of one-character strings, so that
\* sorting and joining them is computed and not assumed.
CharCode(c) ==
  CASE c = "1" -> 49 [] c = "2" -> 50 [] c = "3" -> 51 [] c = "9" -> 57
    [] c = "_" -> 95 [] c = "a" -> 97 [] c = "b" -> 98 [] c = "z" -> 122

U1 == <<"a", "1">>
U2 == <<"b", "2">>
U3 == <<"a", "3">>
Users == {U1, U2, U3}
\* a well-formed id that names no user, a malformed id, and a missing id
Ghost == <<"b", "9">>
BadId == <<"z">>
NoId == <<>>

Role(u) == IF u \in {U1, U3} THEN "artist" ELSE "buyer"
IsObjectId(id) == Len(id) = 2 /\ id[1] \in {"a", "b"}

\* U3 holds an account and no connection: a second artist for U1 and U2 to name.
Sockets == {"s1", "s2"}
\* A second connection of U1 (another tab), known to the presence tracker.
Tab == "s3"
AllSockets == Sockets \cup {Tab}
SocketUser(s) == CASE s = "s1" -> U1 [] s = "s2" -> U2 [] s = Tab -> U1
NoSocket == "none"

RECURSIVE LexLess(_, _)
LexLess(a, b) ==
  IF b = <<>> THEN FALSE
  ELSE IF a = <<>> THEN TRUE
  ELSE IF CharCode(Head(a)) # CharCode(Head(b))
       THEN CharCode(Head(a)) < CharCode(Head(b))
       ELSE LexLess(Tail(a), Tail(b))

\* A join in the order of the arguments.
JoinUnsorted(userIdA, userIdB) == userIdA \o <<"_">> \o userIdB

\* [a.toString(), b.toString()].sort().join("_")
createConversationId(userIdA, userIdB) ==
  IF LexLess(userIdB, userIdA)
  THEN userIdB \o <<"_">> \o userIdA
  ELSE userIdA \o <<"_">> \o userIdB

\* ------------------------------------------------------ content analyzer
\* The message texts the model sends.
TextOk == "Hello, I love this piece!"
TextNumber == "my number is five five five"
TextEmail == "reach me at a@b.com"
Contents == {TextOk, TextNumber}

\* CONTACT_PATTERNS that validateMessageContent tests: shared RegExp objects
\* with the g flag, so each keeps its lastIndex from one test() to the next.
PlatformKeys ==
  <<"whatsapp", "telegram", "instagram", "facebook", "twitter", "skype", "discord">>
TestedPatterns ==
  {"email", "phone", "url", "socialHandle"} \cup {PlatformKeys[i] : i \in 1..Len(PlatformKeys)}

\* Where a pattern matches in a text: from any start index up to lastStart
\* the search finds the match that ends at end.
NoMatch == [found |-> FALSE, lastStart |-> 0, end |-> 0]
MatchSpan(p, text) ==
  CASE p = "email" /\ text = TextEmail -> [found |-> TRUE, lastStart |-> 12, end |-> 19]
    [] p = "socialHandle" /\ text = TextEmail -> [found |-> TRUE, lastStart |-> 13, end |-> 15]
    [] OTHER -> NoMatch

\* RegExp.prototype.test on a global regex: search from lastIndex, leave
\* lastIndex at the end of the match, or reset it to 0 when nothing matches.
RegexTest(p, text, li) ==
  LET span == MatchSpan(p, text)
  IN IF span.found /\ li[p] <= span.lastStart
     THEN [hit |-> TRUE, lastIndex |-> span.end]
     ELSE [hit |-> FALSE, lastIndex |-> 0]

\* How many CONTACT_PHRASES the lower-cased text includes.
ContactPhraseCount(text) ==
  CASE text = TextNumber -> 1     \* "my number is"
    [] text = TextEmail -> 1      \* "reach me at"
    [] OTHER -> 0

RECURSIVE Repeat(_, _)
Repeat(x, n) == IF n = 0 THEN <<>> ELSE <<x>> \o Repeat(x, n - 1)

RECURSIVE PlatformViolations(_, _, _)
PlatformViolations(i, text, li) ==
  IF i > Len(PlatformKeys) THEN <<>>
  ELSE (IF RegexTest(PlatformKeys[i], text, li).hit
        THEN <<"References to " \o PlatformKeys[i] \o " are not allowed">>
        ELSE <<>>) \o PlatformViolations(i + 1, text, li)

validateMessageContent(content, li) ==
  LET violations ==
        (IF RegexTest("email", content, li).hit
         THEN <<"Email addresses are not allowed">> ELSE <<>>)
        \o (IF RegexTest("phone", content, li).hit
            THEN <<"Phone numbers are not allowed">> ELSE <<>>)
        \o (IF RegexTest("url", content, li).hit
            THEN <<"URLs and links are not allowed">> ELSE <<>>)
        \o (IF RegexTest("socialHandle", content, li).hit
            THEN <<"Social media handles are not allowed">> ELSE <<>>)
        \o PlatformViolations(1, content, li)
        \o Repeat("Requests for direct contact are not allowed",
                  ContactPhraseCount(content))
  IN [isValid |-> violations = <<>>,
      violations |-> violations,
      lastIndex |-> [p \in TestedPatterns |-> RegexTest(p, content, li).lastIndex]]

\* The regex literals of detectSuspiciousPatterns are created on every call.
detectSuspiciousPatterns(content) == content = TextNumber   \* spelled-out digits

\* No text of the model holds one of PROFANITY_WORDS.
ProfanityCount(content) == 0

Max(a, b) == IF a >= b THEN a ELSE b

AcceptableScore == 70

analyzeContentSafety(content, li) ==
  LET validation == validateMessageContent(content, li)
      safetyScore ==
        Max(0, 100 - Len(validation.violations) * 20
                   - ProfanityCount(content) * 15
                   - (IF detectSuspiciousPatterns(content) THEN 25 ELSE 0))
  IN [safetyScore |-> safetyScore,
      isAcceptable |-> safetyScore >= AcceptableScore,
      violations |-> validation.violations,
      lastIndex |-> validation.lastIndex]

\* MessageService.filterMessageContent, then the schema's trim: what is stored.
filterMessageContent(content) ==
  IF content = TextEmail THEN "reach me at [CONTACT INFO REMOVED]" ELSE content

\* ------------------------------------------------------------------ state
VARIABLES
  messages,      \* the Message collection, in the order the creates committed
  blockedUsers,  \* User.blockedUsers of every user: a list of ids
  onlineUsers,   \* OnlineHandler.onlineUsers: user id -> socket id of its record
  userSockets,   \* OnlineHandler.userSockets: socket id -> user id
  connected,     \* the sockets whose connection is open
  lastIndex,     \* lastIndex of each shared CONTACT_PATTERNS regex
  activeTyping,  \* ChatHandler.activeTyping: the typing keys that hold a timer
  rooms,         \* the conversation rooms each socket has joined
  tasks,         \* the handler invocations suspended at an await
  lastDone,      \* the handler invocation the last step completed (Idle: none)
  clock,         \* the wall clock, in units of the sweep's threshold arithmetic
  lastActivity,  \* lastActivity of each presence record (0: no record)
  timers,        \* the timeouts of typing_start neither cleared nor fired
  tracked,       \* how far setupActivityTracking is for each socket
  isOnline,      \* User.isOnline of every user, as stored
  writes         \* the isOnline updates issued and not yet committed

vars == <<messages, blockedUsers, onlineUsers, userSockets, connected,
          lastIndex, activeTyping, rooms, tasks, lastDone, clock, lastActivity,
          timers, tracked, isOnline, writes>>

\* The stored presence flag and the updates on their way to it.
persisted == <<isOnline, writes>>

Range(f) == {f[i] : i \in DOMAIN f}

\* An emitted event: to one socket, to a user channel (user_<id>), to a
\* conversation room (conversation_<id>), or the HTTP response of a request.
Emit(ch, to, event) == [ch |-> ch, to |-> to, event |-> event]
ToSocket(s, event) == Emit("socket", <<s>>, event)
ToUser(u, event) == Emit("user", u, event)
ToRoom(cid, event) == Emit("room", cid, event)
Respond(u, status) == Emit("http", u, status)

\* A handler invocation.  kind and pc say which continuation runs next; msg is
\* the index of the message it created; snap and isBlocked are the user
\* document toggleBlockUser read; the remaining fields record what the
\* invocation saw where it decided, and what it emitted; stamp is the
\* timestamp it read for the message, list and total what a query returned.
Idle ==
  [kind |-> "idle", sock |-> NoSocket, user |-> NoId, peer |-> NoId,
   content |-> "", pc |-> "", msg |-> 0, snap |-> <<>>, isBlocked |-> FALSE,
   stale |-> FALSE,
   blockedBy |-> FALSE, blocks |-> FALSE, score |-> 100, online |-> FALSE,
   changed |-> 0, result |-> "", error |-> "", violations |-> <<>>, out |-> <<>>,
   stamp |-> 0, list |-> <<>>, total |-> 0]

Start(kind, sock, user, peer, content) ==
  [Idle EXCEPT !.kind = kind, !.sock = sock, !.user = user, !.peer = peer,
               !.content = content]

FreeSlots == {t \in 1..MaxTasks : tasks[t].kind = "idle"}
FreeSlot == CHOOSE t \in FreeSlots : \A o \in FreeSlots : t <= o
Busy == {t \in 1..MaxTasks : tasks[t].kind # "idle"}
Creating == {t \in 1..MaxTasks : tasks[t].pc = "create"}
\* The run's budget: fewer than n messages stored or about to be.
Budget(n) == Len(messages) + Cardinality(Creating) < n

Init ==
  /\ messages = <<>>
  /\ blockedUsers = [u \in Users |-> <<>>]
  /\ onlineUsers = [u \in Users |-> NoSocket]
  /\ userSockets = [s \in AllSockets |-> NoId]
  /\ connected = {}
  /\ lastIndex = [p \in TestedPatterns |-> 0]
  /\ activeTyping = {}
  /\ rooms = [s \in AllSockets |-> {}]
  /\ tasks = [t \in 1..MaxTasks |-> Idle]
  /\ lastDone = Idle
  /\ clock = 0
  /\ lastActivity = [u \in Users |-> 0]
  /\ timers = {}
  /\ tracked = [s \in AllSockets |-> "off"]
  /\ isOnline = [u \in Users |-> FALSE]
  /\ writes = {}

\* ------------------------------------------------------ typing timeouts
\* setTimeout(...) of handleTypingStart: the key it is stored under, the
\* socket whose typing_start armed it, and whether activeTyping still holds
\* its handle.
Timer(key, s) == [key |-> key, sock |-> s, held |-> TRUE]

\* A typing_start that leaves the timeout of the key running.
KeepTimeout(pending, key) == pending

\* clearTimeout(this.activeTyping.get(typingKey))
ClearTimeout(pending, key) == {t \in pending : ~(t.key = key /\ t.held)}

\* this.activeTyping.delete(typingKey): the Map lets go of the key's handle.
Forget(pending, key) ==
  {IF t.key = key THEN [t EXCEPT !.held = FALSE] ELSE t : t \in pending}

\* this.activeTyping.set(typingKey, timeout)
Arm(pending, key, s) == Forget(pending, key) \cup {Timer(key, s)}

\* stopTyping: clearTimeout of the key's handle, then delete.
StopTimers(pending, key) == Forget(ClearTimeout(pending, key), key)

\* cleanupUserRooms: every key that starts with the user id is cleared and
\* deleted.
ClearUserTimers(pending, userId) ==
  {t \in pending : ~(t.key[1] = userId /\ t.held)}

\* ------------------------------------------------------- presence tracker
isUserOnline(userId) == onlineUsers[userId] # NoSocket

\* io.on("connection") and OnlineHandler.userConnected up to its first await.
Connect(s) ==
  /\ s \notin connected
  /\ connected' = connected \cup {s}
  /\ onlineUsers' = [onlineUsers EXCEPT ![SocketUser(s)] = s]
  /\ userSockets' = [userSockets EXCEPT ![s] = SocketUser(s)]
  /\ lastActivity' = [lastActivity EXCEPT ![SocketUser(s)] = clock]
  /\ tracked' = [tracked EXCEPT ![s] = "await"]
  /\ lastDone' = [Start("connect", s, SocketUser(s), NoId, "")
                    EXCEPT !.result = "connected",
                           !.out = <<ToSocket(s, "connected")>>]
  /\ UNCHANGED <<messages, blockedUsers, lastIndex, activeTyping, rooms, tasks, clock>>
  /\ UNCHANGED timers

\* A disconnect that forgets the reverse mapping and keeps the record.
DisconnectKeepsRecord(s) ==
  /\ s \in connected
  /\ connected' = connected \ {s}
  /\ userSockets' = [userSockets EXCEPT ![s] = NoId]
  /\ activeTyping' = {k \in activeTyping : k[1] # SocketUser(s)}
  /\ timers' = ClearUserTimers(timers, SocketUser(s))
  /\ tracked' = [tracked EXCEPT ![s] = "off"]
  /\ rooms' = [rooms EXCEPT ![s] = {}]
  /\ lastDone' = [Start("disconnect", s, SocketUser(s), NoId, "")
                    EXCEPT !.result = "disconnected"]
  /\ UNCHANGED <<messages, blockedUsers, lastIndex, tasks, clock, onlineUsers,
                 lastActivity>>

\* socket.on("disconnect"): OnlineHandler.userDisconnected up to its first
\* await, then ChatHandler.cleanupUserRooms.
Disconnect(s) ==
  /\ s \in connected
  /\ connected' = connected \ {s}
  /\ onlineUsers' = [onlineUsers EXCEPT ![SocketUser(s)] = NoSocket]
  /\ userSockets' = [userSockets EXCEPT ![s] = NoId]
  /\ activeTyping' = {k \in activeTyping : k[1] # SocketUser(s)}
  /\ timers' = ClearUserTimers(timers, SocketUser(s))
  /\ tracked' = [tracked EXCEPT ![s] = "off"]
  /\ rooms' = [rooms EXCEPT ![s] = {}]
  /\ lastActivity' = [lastActivity EXCEPT ![SocketUser(s)] = 0]
  /\ lastDone' = [Start("disconnect", s, SocketUser(s), NoId, "")
                    EXCEPT !.result = "disconnected"]
  /\ UNCHANGED <<messages, blockedUsers, lastIndex, tasks, clock>>

\* The clock advances.
Tick ==
  /\ clock < MaxClock
  /\ clock' = clock + 1
  /\ lastDone' = Idle
  /\ UNCHANGED <<messages, blockedUsers, onlineUsers, userSockets, connected,
                 lastIndex, activeTyping, rooms, tasks, lastActivity>>
  /\ UNCHANGED <<timers, tracked, isOnline, writes>>

\* updateUserActivity(userId): on "user_activity", and on every emit to the
\* socket through the emit that setupActivityTracking installed.
updateUserActivity(userId) ==
  IF isUserOnline(userId)
  THEN [lastActivity EXCEPT ![userId] = clock]
  ELSE lastActivity

\* The rest of userConnected, after its two awaits: setupActivityTracking
\* replaces socket.emit and registers the "user_activity" listener.
SetupActivityTracking(s) ==
  /\ tracked[s] = "await"
  /\ tracked' = [tracked EXCEPT ![s] = "on"]
  /\ lastDone' = Idle
  /\ UNCHANGED <<messages, blockedUsers, onlineUsers, userSockets, connected,
                 lastIndex, activeTyping, rooms, tasks, clock, lastActivity>>
  /\ UNCHANGED <<timers, isOnline, writes>>

\* socket.emit as setupActivityTracking replaced it: an event the server
\* emits to the socket itself refreshes the record of the socket's user.
\* Events to a user channel or a room, and events the socket receives, do
\* not pass through it.
EmitTouch(s) ==
  IF s \in AllSockets /\ tracked[s] = "on"
  THEN updateUserActivity(SocketUser(s))
  ELSE lastActivity

\* socket.on("user_activity")
Touch(s) ==
  /\ s \in connected
  /\ tracked[s] = "on"
  /\ lastActivity' = updateUserActivity(SocketUser(s))
  /\ lastDone' = [Start("activity", s, SocketUser(s), NoId, "")
                    EXCEPT !.result = "touched"]
  /\ UNCHANGED <<messages, blockedUsers, onlineUsers, userSockets, connected,
                 lastIndex, activeTyping, rooms, tasks, clock>>
  /\ UNCHANGED <<timers, tracked, isOnline, writes>>

\* inactiveThreshold: 30 minutes, the clock counting tens of minutes.
InactiveThreshold == 3

\* A sweep that finds every record recent.
Never(now, last) == FALSE

\* now - lastActivity > inactiveThreshold
Inactive(now, last) == now - last > InactiveThreshold

\* cleanupInactiveUsers: one synchronous pass over onlineUsers with `now`
\* read before the loop; it deletes the records, not the reverse mapping,
\* and leaves the sockets open.
InactiveUsers ==
  {u \in Users : isUserOnline(u) /\ Inactive(clock, lastActivity[u])}

CleanupInactiveUsers ==
  LET removed == InactiveUsers
  IN /\ onlineUsers' = [u \in Users |->
                          IF u \in removed THEN NoSocket ELSE onlineUsers[u]]
     /\ lastActivity' = [u \in Users |->
                          IF u \in removed THEN 0 ELSE lastActivity[u]]
     /\ lastDone' = [Start("sweep", NoSocket, NoId, NoId, "")
                       EXCEPT !.result = "swept",
                              !.changed = Cardinality(removed)]
     /\ UNCHANGED <<messages, blockedUsers, userSockets, connected, lastIndex,
                    activeTyping, rooms, tasks, clock>>
     /\ UNCHANGED <<timers, tracked>>

\* --------------------------------------------------- persisted presence
\* User.findByIdAndUpdate(userId, {isOnline, lastSeen}) as issued by the
\* presence handler: an update on its way to the store.
PresenceWrite(userId, value) == [user |-> userId, value |-> value]

IssueWrites(updates) ==
  /\ writes' = writes \cup updates
  /\ UNCHANGED isOnline

\* userConnected with its update of the user document.
UserConnected(s) ==
  Connect(s) /\ IssueWrites({PresenceWrite(SocketUser(s), TRUE)})

\* userDisconnected with its update of the user document.
UserDisconnected(s) ==
  Disconnect(s) /\ IssueWrites({PresenceWrite(SocketUser(s), FALSE)})

\* cleanupInactiveUsers with the update it issues, without awaiting it, for
\* every record it removes.
SweepInactive ==
  CleanupInactiveUsers
    /\ IssueWrites({PresenceWrite(u, FALSE) : u \in InactiveUsers})

\* An update commits.  Each one is its own command to the store, awaited by
\* the handler that issued it and by nothing else, so the pending updates
\* commit in any order.
CommitWrite(w) ==
  /\ w \in writes
  /\ isOnline' = [isOnline EXCEPT ![w.user] = w.value]
  /\ writes' = writes \ {w}
  /\ lastDone' = Idle
  /\ UNCHANGED <<messages, blockedUsers, onlineUsers, userSockets, connected,
                 lastIndex, activeTyping, rooms, tasks, clock, lastActivity>>
  /\ UNCHANGED <<timers, tracked>>

\* A store whose create writes the delivered status itself.
NewMessageDelivered(senderId, receiverId, content, timestamp) ==
  [sender |-> senderId,
   receiver |-> receiverId,
   content |-> filterMessageContent(content),
   conversationId |-> createConversationId(senderId, receiverId),
   timestamp |-> timestamp,
   read |-> FALSE,
   readAt |-> "unset",
   messageStatus |-> "delivered",
   deleted |-> FALSE]

\* ---------------------------------------------------------- message store
\* `timestamp: new Date()` in MessageService.sendMessage, read when the
\* service is called, before the create is awaited: the calls are numbered
\* in the order they read the clock.
Timestamp == Len(messages) + Cardinality(Creating) + 1

\* Message.create in MessageService.sendMessage, with the schema defaults.
NewMessage(senderId, receiverId, content, timestamp) ==
  [sender |-> senderId,
   receiver |-> receiverId,
   content |-> filterMessageContent(content),
   conversationId |-> createConversationId(senderId, receiverId),
   timestamp |-> timestamp,
   read |-> FALSE,
   readAt |-> "unset",
   messageStatus |-> "sent",
   deleted |-> FALSE]

\* A block check that lets every sender through.
ReceiverNeverBlocks(senderId, receiverId) == FALSE

\* ------------------------------------------------ send_message (socket)
\* receiver.blockedUsers.includes(socket.user.id)
ReceiverBlocksSender(senderId, receiverId) ==
  senderId \in Range(blockedUsers[receiverId])

\* The sender's own block list names the receiver.
SenderBlocksReceiver(senderId, receiverId) ==
  receiverId \in Range(blockedUsers[senderId])

SameRole(userId, otherId) == Role(userId) = Role(otherId)

\* The checks of handleSendMessage before it persists, in the order of the
\* code; "" when the message goes on to the store.
SendRejection(userId, receiverId, content) ==
  IF receiverId = NoId \/ content = "" \/ receiverId = userId
    THEN "Invalid message data"
  ELSE IF ~IsObjectId(receiverId)
    THEN "Failed to send message"         \* User.findById throws, caught
  ELSE IF receiverId \notin Users
    THEN "Receiver not found"
  ELSE IF SameRole(userId, receiverId)
    THEN "You can only message users with different roles"
  ELSE IF ReceiverBlocksSender(userId, receiverId)
    THEN "Unable to send message"
  ELSE IF ~analyzeContentSafety(content, lastIndex).isAcceptable
    THEN "Message contains prohibited content"
  ELSE ""

\* Whether the handler got as far as analyzeContentSafety.
SendAnalyzes(userId, receiverId, content) ==
  SendRejection(userId, receiverId, content)
    \in {"", "Message contains prohibited content"}

\* What the invocation saw when it checked the counterpart.
Seen(task) ==
  IF task.peer \in Users
  THEN [task EXCEPT !.blockedBy = task.user \in Range(blockedUsers[task.peer]),
                    !.blocks = task.peer \in Range(blockedUsers[task.user])]
  ELSE task

\* A rejection that also tells the counterpart.
RejectedLeaks(task, event, message) ==
  [task EXCEPT !.result = "rejected", !.error = message,
               !.out = @ \o <<ToSocket(task.sock, event), ToUser(task.peer, event)>>]

Rejected(task, event, message) ==
  [task EXCEPT !.result = "rejected", !.error = message,
               !.out = @ \o <<ToSocket(task.sock, event)>>]

HandleSendMessage(s, receiverId, content) ==
  /\ s \in connected
  /\ LET userId == SocketUser(s)
         rejection == SendRejection(userId, receiverId, content)
         analyzed == SendAnalyzes(userId, receiverId, content)
         analysis == analyzeContentSafety(content, lastIndex)
         task0 == Seen(Start("send", s, userId, receiverId, content))
         task == IF analyzed
                 THEN [task0 EXCEPT !.score = analysis.safetyScore,
                                    !.violations = analysis.violations]
                 ELSE task0
     IN /\ lastIndex' = IF analyzed THEN analysis.lastIndex ELSE lastIndex
        /\ IF rejection # ""
           THEN /\ lastDone' = Rejected(task, "message_error", rejection)
                /\ UNCHANGED tasks
           ELSE /\ FreeSlots # {}
                /\ tasks' = [tasks EXCEPT ![FreeSlot] =
                       [task EXCEPT !.pc = "create", !.stamp = Timestamp]]
                /\ lastDone' = Idle
        /\ lastActivity' = IF rejection # "" THEN EmitTouch(s) ELSE lastActivity
  /\ UNCHANGED <<messages, blockedUsers, onlineUsers, userSockets, connected,
                 activeTyping, rooms>>
  /\ UNCHANGED <<clock, timers, tracked, isOnline, writes>>

\* await messageService.sendMessage(...): the create commits.
SendMessageCreate(t) ==
  /\ tasks[t].kind = "send" /\ tasks[t].pc = "create"
  /\ messages' = Append(messages, NewMessage(tasks[t].user, tasks[t].peer,
                                          tasks[t].content, tasks[t].stamp))
  /\ tasks' = [tasks EXCEPT ![t].pc = "deliver", ![t].msg = Len(messages) + 1]
  /\ lastDone' = Idle
  /\ UNCHANGED <<blockedUsers, onlineUsers, userSockets, connected, lastIndex,
                 activeTyping, rooms>>
  /\ UNCHANGED <<clock, lastActivity, timers, tracked, isOnline, writes>>

\* A handler that tells the receiver and the room, and not the sender.
SendMessageEmitsNoAck(task) ==
  <<ToUser(task.peer, "user_typing_false"),
    ToUser(task.peer, "new_message")>>

\* stopTyping(socket, receiverId, io), then the emits that end the handler.
SendMessageEmits(task) ==
  <<ToUser(task.peer, "user_typing_false"),
    ToSocket(task.sock, "message_sent"),
    ToUser(task.peer, "new_message"),
    ToRoom(createConversationId(task.user, task.peer), "conversation_message")>>

SendMessageFinish(t, task) ==
  /\ activeTyping' = activeTyping \ {<<task.user, task.peer>>}
  /\ timers' = StopTimers(timers, <<task.user, task.peer>>)
  /\ lastActivity' = EmitTouch(task.sock)
  /\ lastDone' = [task EXCEPT !.result = "sent", !.pc = "",
                              !.out = @ \o SendMessageEmits(task)]
  /\ tasks' = [tasks EXCEPT ![t] = Idle]

\* The status the delivered upgrade writes.
DeliveredStatus == "delivered"

\* After the service returned (populate and updateLastMessageTimestamp were
\* awaited): the presence check.  Online: findByIdAndUpdate is issued.
SendMessageDeliver(t) ==
  /\ tasks[t].kind = "send" /\ tasks[t].pc = "deliver"
  /\ IF isUserOnline(tasks[t].peer)
     THEN /\ tasks' = [tasks EXCEPT ![t].pc = "update", ![t].online = TRUE]
          /\ lastDone' = Idle
          /\ UNCHANGED <<activeTyping, timers, lastActivity>>
     ELSE SendMessageFinish(t, tasks[t])
  /\ UNCHANGED <<messages, blockedUsers, onlineUsers, userSockets, connected,
                 lastIndex, rooms>>
  /\ UNCHANGED <<clock, tracked, isOnline, writes>>

\* Message.findByIdAndUpdate(id, {messageStatus: "delivered"}) commits, and
\* the handler runs to its end.
SendMessageUpdate(t) ==
  /\ tasks[t].kind = "send" /\ tasks[t].pc = "update"
  /\ messages' = [messages EXCEPT ![tasks[t].msg].messageStatus = DeliveredStatus]
  /\ SendMessageFinish(t, tasks[t])
  /\ UNCHANGED <<blockedUsers, onlineUsers, userSockets, connected, lastIndex, rooms>>
  /\ UNCHANGED <<clock, tracked, isOnline, writes>>

\* --------------------------------------------- POST /send (REST sendMessage)
\* The users that call the REST API.
Callers == {U1, U2}

RespondRejected(task, status, message) ==
  [task EXCEPT !.result = "rejected", !.error = message,
               !.out = @ \o <<Respond(task.user, status)>>]

\* validateSendMessage, then the controller's checks, in the order of the
\* code: the HTTP status and message of the rejection, or "" for none.
RestSendRejection(userId, receiverId, content) ==
  IF ~IsObjectId(receiverId)
    THEN <<"400", "Valid receiver ID is required">>
  ELSE IF receiverId \notin Users
    THEN <<"400", "Receiver not found">>
  ELSE IF receiverId = userId
    THEN <<"400", "Cannot send message to yourself">>
  ELSE IF content = ""
    THEN <<"400", "Message content must be between 1 and 1000 characters">>
  ELSE IF SameRole(userId, receiverId)
    THEN <<"403", "You cannot send messages to users with the same role">>
  ELSE IF ReceiverBlocksSender(userId, receiverId)
    THEN <<"403", "Unable to send message">>
  ELSE IF SenderBlocksReceiver(userId, receiverId)
    THEN <<"403", "You have blocked the receiver">>
  ELSE <<"", "">>

RestSendMessage(userId, receiverId, content) ==
  /\ LET rejection == RestSendRejection(userId, receiverId, content)
         task == Seen(Start("rest_send", "rest", userId, receiverId, content))
     IN IF rejection[1] # ""
        THEN /\ lastDone' = RespondRejected(task, rejection[1], rejection[2])
             /\ UNCHANGED tasks
        ELSE /\ FreeSlots # {}
             /\ tasks' = [tasks EXCEPT ![FreeSlot] =
                       [task EXCEPT !.pc = "create", !.stamp = Timestamp]]
             /\ lastDone' = Idle
  /\ UNCHANGED <<messages, blockedUsers, onlineUsers, userSockets, connected,
                 lastIndex, activeTyping, rooms>>
  /\ UNCHANGED <<clock, lastActivity, timers, tracked, isOnline, writes>>

\* await messageService.sendMessage(...), then res.status(201).
RestSendMessageCreate(t) ==
  /\ tasks[t].kind = "rest_send" /\ tasks[t].pc = "create"
  /\ messages' = Append(messages, NewMessage(tasks[t].user, tasks[t].peer,
                                          tasks[t].content, tasks[t].stamp))
  /\ lastDone' = [tasks[t] EXCEPT !.result = "sent", !.pc = "",
                                  !.msg = Len(messages) + 1,
                                  !.out = @ \o <<Respond(tasks[t].user, "201")>>]
  /\ tasks' = [tasks EXCEPT ![t] = Idle]
  /\ UNCHANGED <<blockedUsers, onlineUsers, userSockets, connected, lastIndex,
                 activeTyping, rooms>>
  /\ UNCHANGED <<clock, lastActivity, timers, tracked, isOnline, writes>>

\* A filter that forgets the conversation.
UnreadAnywhere(m, conversationId, readerId) ==
  m.receiver = readerId /\ m.read = FALSE

\* ------------------------------------------------------------- mark as read
\* The filter of both updateMany calls.
Unread(m, conversationId, readerId) ==
  m.conversationId = conversationId /\ m.receiver = readerId /\ m.read = FALSE

\* The update document of handleMarkAsRead.
SocketReadUpdate(m) ==
  [m EXCEPT !.read = TRUE, !.readAt = "set", !.messageStatus = "read"]

\* The update document of MessageService.markMessagesAsRead.
ServiceReadUpdate(m) ==
  [m EXCEPT !.read = TRUE, !.readAt = "set"]

UnreadCount(conversationId, readerId) ==
  Cardinality({i \in DOMAIN messages : Unread(messages[i], conversationId, readerId)})

\* A let/const binding is in its temporal dead zone from the start of its
\* block to its declaration: reading it there throws a ReferenceError.
TemporalDeadZone(useLine, declarationLine) == useLine < declarationLine

\* handleMarkAsRead reads Message at line 295 of the try block that declares
\* `const Message` at line 301.
MarkAsReadThrows == TemporalDeadZone(295, 301)

HandleMarkAsRead(s, otherUserId) ==
  /\ s \in connected
  /\ LET userId == SocketUser(s)
         task == Start("mark", s, userId, otherUserId, "")
         conversationId == createConversationId(userId, otherUserId)
     IN IF otherUserId = NoId \/ otherUserId = userId
        THEN /\ lastDone' = Rejected(task, "message_error", "Invalid user ID")
             /\ UNCHANGED messages
        ELSE IF MarkAsReadThrows
        THEN /\ lastDone' = Rejected(task, "error", "Failed to mark messages as read")
             /\ UNCHANGED messages
        ELSE /\ messages' = [i \in DOMAIN messages |->
                               IF Unread(messages[i], conversationId, userId)
                               THEN SocketReadUpdate(messages[i]) ELSE messages[i]]
             /\ lastDone' = [task EXCEPT
                  !.result = "marked",
                  !.changed = UnreadCount(conversationId, userId),
                  !.out = <<ToUser(otherUserId, "messages_read"),
                            ToSocket(s, "messages_marked_read")>>]
  /\ lastActivity' = EmitTouch(s)
  /\ UNCHANGED <<blockedUsers, onlineUsers, userSockets, connected, lastIndex,
                 activeTyping, rooms, tasks>>
  /\ UNCHANGED <<clock, timers, tracked, isOnline, writes>>

\* validateMarkAsRead: the other user exists and is not the caller.
RestCounterpartRejection(userId, otherUserId) ==
  IF ~IsObjectId(otherUserId) THEN "Valid user ID is required"
  ELSE IF otherUserId \notin Users THEN "User not found"
  ELSE IF otherUserId = userId THEN "Cannot name yourself"
  ELSE ""

\* PUT /conversation/:userId/read
RestMarkMessagesAsRead(userId, otherUserId) ==
  /\ LET task == Start("rest_mark", "rest", userId, otherUserId, "")
         rejection == RestCounterpartRejection(userId, otherUserId)
         conversationId == createConversationId(userId, otherUserId)
     IN IF rejection # ""
        THEN /\ lastDone' = RespondRejected(task, "400", rejection)
             /\ UNCHANGED messages
        ELSE /\ messages' = [i \in DOMAIN messages |->
                               IF Unread(messages[i], conversationId, userId)
                               THEN ServiceReadUpdate(messages[i]) ELSE messages[i]]
             /\ lastDone' = [task EXCEPT
                  !.result = "marked",
                  !.changed = UnreadCount(conversationId, userId),
                  !.out = <<Respond(userId, "200")>>]
  /\ UNCHANGED <<blockedUsers, onlineUsers, userSockets, connected, lastIndex,
                 activeTyping, rooms, tasks>>
  /\ UNCHANGED <<clock, lastActivity, timers, tracked, isOnline, writes>>

\* Message.find({conversationId, deleted: {$ne: true}}).sort({timestamp: 1}):
\* the positions of the messages found, in ascending timestamp order.
RECURSIVE SortByTimestamp(_)
SortByTimestamp(found) ==
  IF found = {} THEN <<>>
  ELSE LET first == CHOOSE i \in found : \A j \in found :
                      \/ messages[i].timestamp < messages[j].timestamp
                      \/ messages[i].timestamp = messages[j].timestamp /\ i <= j
       IN <<first>> \o SortByTimestamp(found \ {first})

FindConversation(userId, otherUserId) ==
  SortByTimestamp({i \in DOMAIN messages :
                     /\ messages[i].conversationId
                          = createConversationId(userId, otherUserId)
                     /\ messages[i].deleted # TRUE})

\* A count with the filter of the find.
CountFound(userId, otherUserId) == Len(FindConversation(userId, otherUserId))

\* Message.countDocuments({conversationId}): the pagination total.
CountConversation(userId, otherUserId) ==
  Cardinality({i \in DOMAIN messages :
                 messages[i].conversationId
                   = createConversationId(userId, otherUserId)})

\* GET /conversation/:userId: validateGetConversation, the controller's role
\* check, then MessageService.getConversationMessages.
RestGetConversationMessages(userId, otherUserId) ==
  /\ LET task == Start("rest_read", "rest", userId, otherUserId, "")
         rejection == RestCounterpartRejection(userId, otherUserId)
     IN IF rejection # ""
        THEN /\ lastDone' = RespondRejected(task, "400", rejection)
             /\ UNCHANGED tasks
        ELSE IF SameRole(userId, otherUserId)
        THEN /\ lastDone' = RespondRejected(task, "403",
                              "You cannot view messages with users of the same role")
             /\ UNCHANGED tasks
        ELSE /\ FreeSlots # {}
             /\ tasks' = [tasks EXCEPT ![FreeSlot] =
                            [task EXCEPT !.pc = "count",
                                         !.list = FindConversation(userId, otherUserId)]]
             /\ lastDone' = Idle
  /\ UNCHANGED <<messages, blockedUsers, onlineUsers, userSockets, connected,
                 lastIndex, activeTyping, rooms>>
  /\ UNCHANGED <<clock, lastActivity, timers, tracked, isOnline, writes>>

\* Message.countDocuments({conversationId}) returns, then the 200 response
\* with the messages and the pagination.
RestGetConversationCount(t) ==
  /\ tasks[t].kind = "rest_read" /\ tasks[t].pc = "count"
  /\ lastDone' = [tasks[t] EXCEPT
                    !.result = "read", !.pc = "",
                    !.total = CountConversation(tasks[t].user, tasks[t].peer),
                    !.out = <<Respond(tasks[t].user, "200")>>]
  /\ tasks' = [tasks EXCEPT ![t] = Idle]
  /\ UNCHANGED <<messages, blockedUsers, onlineUsers, userSockets, connected,
                 lastIndex, activeTyping, rooms, clock, lastActivity>>
  /\ UNCHANGED <<timers, tracked, isOnline, writes>>

\* GET /unread-count: Message.countDocuments({receiver, read: false,
\* deleted: {$ne: true}}).
getUnreadCount(userId) ==
  Cardinality({i \in DOMAIN messages : /\ messages[i].receiver = userId
                                       /\ messages[i].read = FALSE
                                       /\ messages[i].deleted # TRUE})

RestGetUnreadCount(userId) ==
  /\ lastDone' = [Start("rest_unread", "rest", userId, NoId, "") EXCEPT
                    !.result = "counted",
                    !.total = getUnreadCount(userId),
                    !.out = <<Respond(userId, "200")>>]
  /\ UNCHANGED <<messages, blockedUsers, onlineUsers, userSockets, connected,
                 lastIndex, activeTyping, rooms, tasks, clock, lastActivity>>
  /\ UNCHANGED <<timers, tracked, isOnline, writes>>

\* ----------------------------------------------------------- DELETE /:messageId
\* Message ids: the position of the message in the store; 0 is not an
\* ObjectId, a position past the end is an id that names no message.
IsMessageId(messageId) == messageId > 0

\* What MessageService.deleteMessage throws inside its try block.
DeleteThrown(userId, messageId) ==
  IF messageId \notin DOMAIN messages
    THEN <<"404", "Message not found">>
  ELSE IF messages[messageId].sender # userId
    THEN <<"403", "You can only delete your own messages">>
  ELSE <<"", "">>

\* The catch of deleteMessage: whatever was thrown, it throws
\* AppError("Failed to delete message", 500).
DeleteCaught(thrown) == <<"500", "Failed to delete message">>

\* validateDeleteMessage, the controller, and the service up to the result
\* of Message.findById and the checks on it; save() is issued.
RestDeleteMessage(userId, messageId) ==
  /\ LET task == [Start("rest_delete", "rest", userId, NoId, "")
                    EXCEPT !.msg = messageId]
         thrown == DeleteThrown(userId, messageId)
         caught == DeleteCaught(thrown)
     IN IF ~IsMessageId(messageId)
        THEN /\ lastDone' = RespondRejected(task, "400", "Valid message ID is required")
             /\ UNCHANGED tasks
        ELSE IF thrown[1] # ""
        THEN /\ lastDone' = RespondRejected(task, caught[1], caught[2])
             /\ UNCHANGED tasks
        ELSE /\ FreeSlots # {}
             /\ tasks' = [tasks EXCEPT ![FreeSlot] = [task EXCEPT !.pc = "save"]]
             /\ lastDone' = Idle
  /\ UNCHANGED <<messages, blockedUsers, onlineUsers, userSockets, connected,
                 lastIndex, activeTyping, rooms, clock, lastActivity>>
  /\ UNCHANGED <<timers, tracked, isOnline, writes>>

\* message.save() commits deleted = true, then the 200 response.
RestDeleteMessageSave(t) ==
  /\ tasks[t].kind = "rest_delete" /\ tasks[t].pc = "save"
  /\ messages' = [messages EXCEPT ![tasks[t].msg].deleted = TRUE]
  /\ lastDone' = [tasks[t] EXCEPT !.result = "deleted", !.pc = "",
                                  !.out = <<Respond(tasks[t].user, "200")>>]
  /\ tasks' = [tasks EXCEPT ![t] = Idle]
  /\ UNCHANGED <<blockedUsers, onlineUsers, userSockets, connected, lastIndex,
                 activeTyping, rooms, clock, lastActivity>>
  /\ UNCHANGED <<timers, tracked, isOnline, writes>>

\* ------------------------------------------------------------ block / unblock
RECURSIVE Without(_, _)
Without(list, id) ==
  IF list = <<>> THEN <<>>
  ELSE (IF Head(list) = id THEN <<>> ELSE <<Head(list)>>) \o Without(Tail(list), id)

\* MessageService.toggleBlockUser after `await User.findById(userId)`: the
\* document is read, the list changed in memory, and save() is issued.
ToggleRead(task) ==
  [task EXCEPT !.pc = "save",
               !.snap = blockedUsers[task.user],
               !.isBlocked = task.peer \in Range(blockedUsers[task.user])]

\* What save() writes: the push is sent as $push onto the stored list, the
\* filtered list is sent as $set of the whole list.
ToggleWrite(task, stored) ==
  IF task.isBlocked THEN Without(task.snap, task.peer)
  ELSE Append(stored, task.peer)

\* $set of a whole array is versioned: the save matches the document only at
\* the version that was read, and fails after any other array write.
SaveFails(task) == task.isBlocked /\ task.stale

\* Every other toggle of the same user still waiting to save has lost its version.
Outdate(t) ==
  [o \in 1..MaxTasks |->
     IF o # t /\ tasks[o].pc = "save" /\ tasks[o].user = tasks[t].user
     THEN [tasks[o] EXCEPT !.stale = TRUE]
     ELSE IF o = t THEN Idle ELSE tasks[o]]

\* The role check of the socket block_user handler: there is none.
SocketBlockRoleRejected(userId, targetUserId) == FALSE

HandleBlockUser(s, targetUserId) ==
  /\ s \in connected
  /\ LET userId == SocketUser(s)
         task == Start("block", s, userId, targetUserId, "")
     IN IF targetUserId = NoId \/ targetUserId = userId
        THEN /\ lastDone' = Rejected(task, "error", "Invalid target user ID")
             /\ lastActivity' = EmitTouch(s)
             /\ UNCHANGED tasks
        ELSE IF SocketBlockRoleRejected(userId, targetUserId)
        THEN /\ lastDone' = Rejected(task, "error", "Cannot block users with the same role")
             /\ lastActivity' = EmitTouch(s)
             /\ UNCHANGED tasks
        ELSE /\ FreeSlots # {}
             /\ tasks' = [tasks EXCEPT ![FreeSlot] = ToggleRead(task)]
             /\ lastDone' = Idle
             /\ UNCHANGED lastActivity
  /\ UNCHANGED <<messages, blockedUsers, onlineUsers, userSockets, connected,
                 lastIndex, activeTyping, rooms>>
  /\ UNCHANGED <<clock, timers, tracked, isOnline, writes>>

\* A block that stays in the conversation room.
StayInRoom(joined, roomName) == joined

\* socket.leave(roomName)
LeaveRoom(joined, roomName) == joined \ {roomName}

\* user.save() commits and the handler runs to its end.
HandleBlockUserSave(t) ==
  /\ tasks[t].kind = "block" /\ tasks[t].pc = "save"
  /\ LET task == tasks[t]
         conversationId == createConversationId(task.user, task.peer)
     IN /\ IF SaveFails(task)
           THEN /\ lastDone' = Rejected([task EXCEPT !.pc = ""], "error",
                                        "Failed to block/unblock user")
                /\ tasks' = [tasks EXCEPT ![t] = Idle]
                /\ UNCHANGED <<blockedUsers, rooms>>
           ELSE /\ blockedUsers' = [blockedUsers EXCEPT
                     ![task.user] = ToggleWrite(task, blockedUsers[task.user])]
                /\ tasks' = Outdate(t)
                /\ IF task.isBlocked
                   THEN /\ lastDone' = [task EXCEPT !.result = "unblocked", !.pc = "",
                             !.out = <<ToSocket(task.sock, "user_block_toggled")>>]
                        /\ UNCHANGED rooms
                   ELSE /\ lastDone' = [task EXCEPT !.result = "blocked", !.pc = "",
                             !.changed = Cardinality(rooms[task.sock]
                                                       \cap {conversationId}),
                             !.out = <<ToSocket(task.sock, "user_block_toggled"),
                                       ToUser(task.peer, "conversation_blocked")>>]
                        /\ rooms' = [rooms EXCEPT
                             ![task.sock] = LeaveRoom(@, conversationId)]
        /\ lastActivity' = EmitTouch(task.sock)
  /\ UNCHANGED <<messages, onlineUsers, userSockets, connected, lastIndex, activeTyping>>
  /\ UNCHANGED <<clock, timers, tracked, isOnline, writes>>

\* validateBlockUser and the controller's checks of PUT /block/:userId.
RestBlockRejection(userId, targetUserId) ==
  IF RestCounterpartRejection(userId, targetUserId) # ""
    THEN <<"400", RestCounterpartRejection(userId, targetUserId)>>
  ELSE IF SameRole(userId, targetUserId)
    THEN <<"400", "Can only block users with different roles">>
  ELSE <<"", "">>

RestToggleBlockUser(userId, targetUserId) ==
  /\ LET task == Start("rest_block", "rest", userId, targetUserId, "")
         rejection == RestBlockRejection(userId, targetUserId)
     IN IF rejection[1] # ""
        THEN /\ lastDone' = RespondRejected(task, rejection[1], rejection[2])
             /\ UNCHANGED tasks
        ELSE /\ FreeSlots # {}
             /\ tasks' = [tasks EXCEPT ![FreeSlot] = ToggleRead(task)]
             /\ lastDone' = Idle
  /\ UNCHANGED <<messages, blockedUsers, onlineUsers, userSockets, connected,
                 lastIndex, activeTyping, rooms>>
  /\ UNCHANGED <<clock, lastActivity, timers, tracked, isOnline, writes>>

RestToggleBlockUserSave(t) ==
  /\ tasks[t].kind = "rest_block" /\ tasks[t].pc = "save"
  /\ LET task == tasks[t]
     IN IF SaveFails(task)
        THEN /\ lastDone' = RespondRejected([task EXCEPT !.pc = ""], "500",
                                            "Failed to toggle block user")
             /\ tasks' = [tasks EXCEPT ![t] = Idle]
             /\ UNCHANGED blockedUsers
        ELSE /\ blockedUsers' = [blockedUsers EXCEPT
                  ![task.user] = ToggleWrite(task, blockedUsers[task.user])]
             /\ tasks' = Outdate(t)
             /\ lastDone' = [task EXCEPT
                  !.result = IF task.isBlocked THEN "unblocked" ELSE "blocked",
                  !.pc = "", !.out = <<Respond(task.user, "200")>>]
  /\ UNCHANGED <<messages, onlineUsers, userSockets, connected, lastIndex,
                 activeTyping, rooms>>
  /\ UNCHANGED <<clock, lastActivity, timers, tracked, isOnline, writes>>

\* ------------------------------------------------- rooms and typing state
\* join_conversation: the socket joins conversation_<id> of the pair.
JoinConversation(s, otherUserId) ==
  /\ s \in connected
  /\ LET userId == SocketUser(s)
         task == Start("join", s, userId, otherUserId, "")
         conversationId == createConversationId(userId, otherUserId)
     IN IF otherUserId = NoId \/ otherUserId = userId
        THEN /\ lastDone' = Rejected(task, "error", "Invalid conversation data")
             /\ UNCHANGED rooms
        ELSE /\ rooms' = [rooms EXCEPT ![s] = @ \cup {conversationId}]
             /\ lastDone' = [task EXCEPT !.result = "joined",
                               !.out = <<ToSocket(s, "conversation_joined")>>]
  /\ lastActivity' = EmitTouch(s)
  /\ UNCHANGED <<messages, blockedUsers, onlineUsers, userSockets, connected,
                 lastIndex, activeTyping, tasks, clock>>
  /\ UNCHANGED <<timers, tracked, isOnline, writes>>

\* What stopTyping emits: user_typing {isTyping: false} to the other user's
\* channel when it was handed io, nothing when it was not.
StopTypingEmits(otherUserId, io) ==
  IF io THEN <<ToUser(otherUserId, "user_typing_false")>> ELSE <<>>

\* leave_conversation: leaves the room, then stopTyping(socket, otherUserId).
LeaveConversation(s, otherUserId) ==
  /\ s \in connected
  /\ LET userId == SocketUser(s)
         task == Start("leave", s, userId, otherUserId, "")
         conversationId == createConversationId(userId, otherUserId)
     IN IF otherUserId = NoId
        THEN /\ lastDone' = [task EXCEPT !.result = "ignored"]
             /\ UNCHANGED <<rooms, activeTyping, timers, lastActivity>>
        ELSE /\ rooms' = [rooms EXCEPT ![s] = LeaveRoom(@, conversationId)]
             /\ activeTyping' = activeTyping \ {<<userId, otherUserId>>}
             /\ timers' = StopTimers(timers, <<userId, otherUserId>>)
             /\ lastActivity' = EmitTouch(s)
             /\ lastDone' = [task EXCEPT !.result = "left",
                               !.out = StopTypingEmits(otherUserId, FALSE)
                                         \o <<ToSocket(s, "conversation_left")>>]
  /\ UNCHANGED <<messages, blockedUsers, onlineUsers, userSockets, connected,
                 lastIndex, tasks, clock>>
  /\ UNCHANGED <<tracked, isOnline, writes>>

\* typing_start: (re)starts the 3 s timer of the key and tells the other user.
HandleTypingStart(s, otherUserId) ==
  /\ s \in connected
  /\ LET userId == SocketUser(s)
         task == Start("typing_start", s, userId, otherUserId, "")
     IN IF otherUserId = NoId \/ otherUserId = userId
        THEN /\ lastDone' = [task EXCEPT !.result = "rejected"]
             /\ UNCHANGED <<activeTyping, timers>>
        ELSE /\ activeTyping' = activeTyping \cup {<<userId, otherUserId>>}
             /\ timers' = Arm(ClearTimeout(timers, <<userId, otherUserId>>),
                              <<userId, otherUserId>>, s)
             /\ lastDone' = [task EXCEPT !.result = "typing",
                               !.changed = Cardinality(timers) - Cardinality(
                                  ClearTimeout(timers, <<userId, otherUserId>>)),
                               !.out = <<ToUser(otherUserId, "user_typing_true")>>]
  /\ UNCHANGED <<messages, blockedUsers, onlineUsers, userSockets, connected,
                 lastIndex, rooms, tasks, clock, lastActivity>>
  /\ UNCHANGED <<tracked, isOnline, writes>>

\* typing_stop: stopTyping(socket, otherUserId, io).
HandleTypingStop(s, otherUserId) ==
  /\ s \in connected
  /\ LET userId == SocketUser(s)
         task == Start("typing_stop", s, userId, otherUserId, "")
     IN IF otherUserId = NoId
        THEN /\ lastDone' = [task EXCEPT !.result = "ignored"]
             /\ UNCHANGED <<activeTyping, timers>>
        ELSE /\ activeTyping' = activeTyping \ {<<userId, otherUserId>>}
             /\ timers' = StopTimers(timers, <<userId, otherUserId>>)
             /\ lastDone' = [task EXCEPT !.result = "stopped",
                               !.out = StopTypingEmits(otherUserId, TRUE)]
  /\ UNCHANGED <<messages, blockedUsers, onlineUsers, userSockets, connected,
                 lastIndex, rooms, tasks, clock, lastActivity>>
  /\ UNCHANGED <<tracked, isOnline, writes>>

\* The timer of a typing key fires, 3 s after the typing_start that set it:
\* the callback is stopTyping(socket, otherUserId), without io.
TypingTimeout(s, otherUserId) ==
  /\ \E timer \in timers :
       /\ timer.sock = s /\ timer.key = <<SocketUser(s), otherUserId>>
       /\ timers' = StopTimers(timers \ {timer}, timer.key)
  /\ activeTyping' = activeTyping \ {<<SocketUser(s), otherUserId>>}
  /\ lastDone' = [Start("typing_timeout", s, SocketUser(s), otherUserId, "")
                    EXCEPT !.result = "expired",
                           !.out = StopTypingEmits(otherUserId, FALSE)]
  /\ UNCHANGED <<messages, blockedUsers, onlineUsers, userSockets, connected,
                 lastIndex, rooms, tasks, clock, lastActivity>>
  /\ UNCHANGED <<tracked, isOnline, writes>>

\* ------------------------------------------------------------ specification
\* Inputs of the handlers.
PeerIds == Users \cup {Ghost, BadId, NoId}
BlockTargets == Users \cup {NoId}

\* Spec: the socket protocol of delivery and read receipts.  U1 and U2
\* connect and disconnect, U1 sends over its socket, and both mark the
\* conversation read, over the socket and over REST; the handlers interleave
\* at their awaits.
Next ==
  \/ \E s \in Sockets : Connect(s) /\ UNCHANGED persisted
  \/ \E s \in Sockets : Disconnect(s) /\ UNCHANGED persisted
  \/ \E r \in PeerIds, c \in Contents :
       Budget(MaxMessages) /\ HandleSendMessage("s1", r, c)
  \/ \E t \in 1..MaxTasks : SendMessageCreate(t)
  \/ \E t \in 1..MaxTasks : SendMessageDeliver(t)
  \/ \E t \in 1..MaxTasks : SendMessageUpdate(t)
  \/ \E s \in Sockets, o \in {U1, U2, NoId} : HandleMarkAsRead(s, o)
  \/ \E u \in Callers, o \in {U1, U2} : RestMarkMessagesAsRead(u, o)

Spec == Init /\ [][Next]_vars

\* SpecBlock: the checks before a send, a block and a conversation read, on
\* the socket and on the REST path.  U1 is the caller, over its socket and
\* over REST; U2 answers over REST only.  A request is issued when the one
\* before it has been answered.
NextBlock ==
  \/ Connect("s1") /\ UNCHANGED persisted
  \/ \E r \in PeerIds, c \in Contents :
       Busy = {} /\ Budget(BlockMessages) /\ HandleSendMessage("s1", r, c)
  \/ \E t \in 1..MaxTasks : SendMessageCreate(t)
  \/ \E t \in 1..MaxTasks : SendMessageDeliver(t)
  \/ \E r \in PeerIds, c \in Contents :
       Busy = {} /\ Budget(BlockMessages) /\ RestSendMessage(U1, r, c)
  \/ \E t \in 1..MaxTasks : RestSendMessageCreate(t)
  \/ \E o \in PeerIds : Busy = {} /\ RestGetConversationMessages(U1, o)
  \/ \E t \in 1..MaxTasks : RestGetConversationCount(t)
  \/ \E x \in BlockTargets :
       Busy = {} /\ HandleBlockUser("s1", x)
  \/ \E t \in 1..MaxTasks : HandleBlockUserSave(t)
  \/ \E u \in Callers, x \in BlockTargets :
       Busy = {} /\ RestToggleBlockUser(u, x)
  \/ \E t \in 1..MaxTasks : RestToggleBlockUserSave(t)

SpecBlock == Init /\ [][NextBlock]_vars

\* SpecRead: the REST message service.  Every user sends and marks read.
NextRead ==
  \/ \E u \in Users, r \in Users :
       Budget(ReadMessages) /\ RestSendMessage(u, r, TextOk)
  \/ \E t \in 1..MaxTasks : RestSendMessageCreate(t)
  \/ \E u \in Users, o \in Users : RestMarkMessagesAsRead(u, o)

SpecRead == Init /\ [][NextRead]_vars

\* SpecRooms: conversation rooms and typing indicators of U1 and U2, with
\* the timers of the typing keys and the read receipts of the socket.
RoomPeers == Users \cup {NoId}

NextRooms ==
  \/ \E s \in Sockets : Connect(s) /\ UNCHANGED persisted
  \/ \E s \in Sockets : Disconnect(s) /\ UNCHANGED persisted
  \/ \E s \in Sockets, o \in RoomPeers : JoinConversation(s, o)
  \/ \E s \in Sockets, o \in RoomPeers : LeaveConversation(s, o)
  \/ \E s \in Sockets, o \in RoomPeers : HandleTypingStart(s, o)
  \/ \E s \in Sockets, o \in RoomPeers : HandleTypingStop(s, o)
  \/ \E s \in Sockets, o \in RoomPeers : TypingTimeout(s, o)
  \/ \E s \in Sockets, o \in RoomPeers : HandleMarkAsRead(s, o)

SpecRooms == Init /\ [][NextRooms]_vars

\* SpecPresence: the presence tracker.  U1 connects from two tabs, U2 from
\* one; time passes, the sockets report activity, the sweep runs, and U1
\* sends to U2 over REST.
NextPresence ==
  \/ \E s \in AllSockets : Connect(s) /\ UNCHANGED persisted
  \/ \E s \in AllSockets : SetupActivityTracking(s)
  \/ \E s \in AllSockets : Disconnect(s) /\ UNCHANGED persisted
  \/ Tick
  \/ \E s \in AllSockets : Touch(s)
  \/ CleanupInactiveUsers /\ UNCHANGED persisted
  \/ Budget(PresenceMessages) /\ RestSendMessage(U1, U2, TextOk)
  \/ \E t \in 1..MaxTasks : RestSendMessageCreate(t)

SpecPresence == Init /\ [][NextPresence]_vars

\* SpecTyping: the typing indicators of U1, connected from two tabs, and of
\* U2, with the timeouts behind them; U1 sends to U2 from either tab.
TypingPeers == {U1, U2}

NextTyping ==
  \/ \E s \in AllSockets : Connect(s) /\ UNCHANGED persisted
  \/ \E s \in AllSockets : Disconnect(s) /\ UNCHANGED persisted
  \/ \E s \in AllSockets, o \in TypingPeers : HandleTypingStart(s, o)
  \/ \E s \in AllSockets, o \in TypingPeers : HandleTypingStop(s, o)
  \/ \E s \in AllSockets, o \in TypingPeers : TypingTimeout(s, o)
  \/ \E s \in {"s1", Tab} :
       Budget(TypingMessages) /\ HandleSendMessage(s, U2, TextOk)
  \/ \E t \in 1..MaxTasks : SendMessageCreate(t)
  \/ \E t \in 1..MaxTasks : SendMessageDeliver(t)
  \/ \E t \in 1..MaxTasks : SendMessageUpdate(t)

SpecTyping == Init /\ [][NextTyping]_vars

\* SpecActivity: the activity timestamp of U1's presence record.  U1 is
\* connected from one socket, time passes, and the socket sends the events
\* of rooms, typing and read receipts.
ActivityPeers == {U2, NoId}

NextActivity ==
  \/ Connect("s1") /\ UNCHANGED persisted
  \/ SetupActivityTracking("s1")
  \/ Disconnect("s1") /\ UNCHANGED persisted
  \/ Tick
  \/ Touch("s1")
  \/ \E o \in ActivityPeers : JoinConversation("s1", o)
  \/ \E o \in ActivityPeers : LeaveConversation("s1", o)
  \/ \E o \in ActivityPeers : HandleTypingStart("s1", o)
  \/ \E o \in ActivityPeers : HandleTypingStop("s1", o)
  \/ \E o \in ActivityPeers : TypingTimeout("s1", o)
  \/ \E o \in ActivityPeers : HandleMarkAsRead("s1", o)

SpecActivity == Init /\ [][NextActivity]_vars

\* SpecGate: conversation rooms and the block list.  U1 and U2 join and
\* leave their rooms and block and unblock over their sockets; a block_user
\* is sent when the one before it has been answered.
NextGate ==
  \/ \E s \in Sockets : Connect(s) /\ UNCHANGED persisted
  \/ \E s \in Sockets : Disconnect(s) /\ UNCHANGED persisted
  \/ \E s \in Sockets, o \in RoomPeers : JoinConversation(s, o)
  \/ \E s \in Sockets, o \in RoomPeers : LeaveConversation(s, o)
  \/ \E s \in Sockets, x \in BlockTargets :
       Busy = {} /\ HandleBlockUser(s, x)
  \/ \E t \in 1..MaxTasks : HandleBlockUserSave(t)

SpecGate == Init /\ [][NextGate]_vars

\* SpecAnalyzer: the content analyzer behind send_message.  U1 sends texts
\* to U2, among them one with an email address, one after the other or
\* while an earlier send is still at an await.
AnalyzerContents == {TextOk, TextNumber, TextEmail}

NextAnalyzer ==
  \/ \E s \in Sockets : Connect(s) /\ UNCHANGED persisted
  \/ \E s \in Sockets : Disconnect(s) /\ UNCHANGED persisted
  \/ \E c \in AnalyzerContents :
       Budget(AnalyzerMessages) /\ HandleSendMessage("s1", U2, c)
  \/ \E t \in 1..MaxTasks : SendMessageCreate(t)
  \/ \E t \in 1..MaxTasks : SendMessageDeliver(t)
  \/ \E t \in 1..MaxTasks : SendMessageUpdate(t)

SpecAnalyzer == Init /\ [][NextAnalyzer]_vars

\* SpecPersist: the presence tracker and the isOnline flag it writes to the
\* user documents.  U1 connects from two tabs, U2 from one; time passes, the
\* sweep runs, and the updates commit.
NextPersist ==
  \/ \E s \in AllSockets : UserConnected(s)
  \/ \E s \in AllSockets : UserDisconnected(s)
  \/ Tick
  \/ SweepInactive
  \/ \E w \in writes : CommitWrite(w)

SpecPersist == Init /\ [][NextPersist]_vars

\* SpecToggle: U1 blocks and unblocks U2, over its socket and over REST; a
\* toggle may be requested while an earlier one is between its read and its
\* save.
NextToggle ==
  \/ Connect("s1") /\ UNCHANGED persisted
  \/ Disconnect("s1") /\ UNCHANGED persisted
  \/ HandleBlockUser("s1", U2)
  \/ \E t \in 1..MaxTasks : HandleBlockUserSave(t)
  \/ RestToggleBlockUser(U1, U2)
  \/ \E t \in 1..MaxTasks : RestToggleBlockUserSave(t)

SpecToggle == Init /\ [][NextToggle]_vars

\* SpecStore: the REST message service of U1 and U2: send, delete, read a
\* conversation, count the unread, mark read.  Message ids range over the
\* store, one id past it, and a malformed id.
MessageIds == 0..(StoreMessages + 1)

NextStore ==
  \/ \E u \in Callers, r \in Callers :
       Budget(StoreMessages) /\ RestSendMessage(u, r, TextOk)
  \/ \E t \in 1..MaxTasks : RestSendMessageCreate(t)
  \/ \E u \in Callers, id \in MessageIds : RestDeleteMessage(u, id)
  \/ \E t \in 1..MaxTasks : RestDeleteMessageSave(t)
  \/ \E u \in Callers, o \in Callers : RestGetConversationMessages(u, o)
  \/ \E t \in 1..MaxTasks : RestGetConversationCount(t)
  \/ \E u \in Callers : RestGetUnreadCount(u)
  \/ \E u \in Callers, o \in Callers : RestMarkMessagesAsRead(u, o)

SpecStore == Init /\ [][NextStore]_vars

\* ------------------------------------------------------------------ claims
SendKinds == {"send", "rest_send"}

Count(seq, x) == Cardinality({i \in DOMAIN seq : seq[i] = x})

\* The score of a text on a freshly loaded analyzer.
FreshIndex == [p \in TestedPatterns |-> 0]
Score(content) == analyzeContentSafety(content, FreshIndex).safetyScore

\* C1: a send whose receiver's block-list held the sender when the handler
\* checked it ends rejected, with message_error to the sender's socket (an
\* error response on the REST path), and the step stores no message.
C1_BlockedSenderIsRejected ==
  [][(lastDone'.kind \in SendKinds /\ lastDone'.blockedBy)
       => /\ lastDone'.result = "rejected"
          /\ lastDone'.msg = 0
          /\ messages' = messages
          /\ lastDone'.kind = "send"
               => Count(lastDone'.out, ToSocket(lastDone'.sock, "message_error")) = 1
          /\ lastDone'.kind = "rest_send"
               => lastDone'.out = <<Respond(lastDone'.user, "403")>>]_vars

C1_Witness ==
  /\ lastDone.kind = "send"
  /\ lastDone.blockedBy
  /\ lastDone.error = "Unable to send message"
  /\ lastDone.peer = U2
  /\ U1 \in Range(blockedUsers[U2])

\* C2: on the socket path and on the REST path, a send stores no message
\* when the receiver has blocked the sender, and none when the sender has
\* blocked the receiver.
C2_BlockForbidsBothDirections ==
  (lastDone.kind \in SendKinds /\ (lastDone.blockedBy \/ lastDone.blocks))
    => lastDone.result = "rejected" /\ lastDone.msg = 0

\* C3: a send, a block toggle or a conversation read that names a counterpart
\* of the caller's own role is rejected, on the socket path as on the REST path.
C3_RoleBoundaryEverywhere ==
  (/\ lastDone.kind \in {"send", "rest_send", "block", "rest_block", "rest_read"}
   /\ lastDone.peer \in Users
   /\ lastDone.peer # lastDone.user
   /\ SameRole(lastDone.user, lastDone.peer))
    => lastDone.result = "rejected"

\* C4: no send, by the socket event or by the REST controller, stores a
\* message whose safety score is below 70.
C4_LowScoreNeverStored ==
  (lastDone.kind \in SendKinds /\ lastDone.result = "sent")
    => Score(lastDone.content) >= AcceptableScore

\* C5: the delivery status of a message only moves forward along
\* sent -> delivered -> read, and once the message is read its status does
\* not become delivered or sent.
StatusRank(status) ==
  CASE status = "sent" -> 1 [] status = "delivered" -> 2 [] status = "read" -> 3

C5_StatusOnlyForward ==
  [][\A i \in DOMAIN messages :
       /\ StatusRank(messages'[i].messageStatus) >= StatusRank(messages[i].messageStatus)
       /\ (messages[i].read \/ messages[i].messageStatus = "read")
            => messages'[i].messageStatus \in {messages[i].messageStatus, "read"}]_vars

\* C6: a mark_as_read with a valid otherUserId leaves the caller no unread
\* message in that conversation and emits messages_read to the other user.
C6_MarkAsReadMarksAndNotifies ==
  (/\ lastDone.kind = "mark"
   /\ lastDone.peer # NoId
   /\ lastDone.peer # lastDone.user)
    => /\ lastDone.result = "marked"
       /\ Count(lastDone.out, ToUser(lastDone.peer, "messages_read")) = 1
       /\ UnreadCount(createConversationId(lastDone.user, lastDone.peer),
                      lastDone.user) = 0

\* C7: a message with read = true has readAt set and delivery status "read".
C7_ReadImpliesStatusRead ==
  \A i \in DOMAIN messages :
    messages[i].read
      => messages[i].readAt = "set" /\ messages[i].messageStatus = "read"

\* C8: markRead(conversation, reader) leaves the reader no unread message in
\* the conversation, changes no message that is already read, sent by the
\* reader, or of another conversation, and changes nothing when run again.
UnreadIn(store, conversationId, readerId) ==
  {i \in DOMAIN store : /\ store[i].conversationId = conversationId
                        /\ store[i].receiver = readerId
                        /\ ~store[i].read
                        /\ ~store[i].deleted}

C8_MarkReadIdempotent ==
  [][(lastDone'.kind = "rest_mark" /\ lastDone'.result = "marked")
       => LET readerId == lastDone'.user
              conversationId == createConversationId(lastDone'.user, lastDone'.peer)
          IN /\ UnreadIn(messages', conversationId, readerId) = {}
             /\ DOMAIN messages' = DOMAIN messages
             /\ \A i \in DOMAIN messages :
                  (\/ messages[i].read
                   \/ messages[i].sender = readerId
                   \/ messages[i].receiver # readerId
                   \/ messages[i].conversationId # conversationId)
                    => messages'[i] = messages[i]
             /\ UnreadIn(messages, conversationId, readerId) = {}
                  => messages' = messages]_vars

\* A second markRead of a conversation with a read message, while the reader
\* holds an unread message of another conversation.
C8_Witness ==
  /\ lastDone.kind = "rest_mark"
  /\ lastDone.result = "marked"
  /\ lastDone.changed = 0
  /\ \E i \in DOMAIN messages :
       /\ messages[i].receiver = lastDone.user
       /\ messages[i].sender = lastDone.peer
       /\ messages[i].read
  /\ \E j \in DOMAIN messages :
       /\ messages[j].receiver = lastDone.user
       /\ messages[j].sender # lastDone.peer
       /\ ~messages[j].read

\* C9: a send_message that finds the receiver online leaves the message
\* delivered, one that finds the receiver offline leaves it sent, and a
\* message is created with status sent: every status transition comes in a
\* step after the one that commits the create.
C9_DeliveredAfterCreate ==
  [][/\ (lastDone'.kind = "send" /\ lastDone'.result = "sent")
          => /\ lastDone'.msg \in DOMAIN messages
             /\ messages'[lastDone'.msg].messageStatus
                  = (IF lastDone'.online THEN "delivered" ELSE "sent")
     /\ \A i \in DOMAIN messages' \ DOMAIN messages :
          messages'[i].messageStatus = "sent" /\ ~messages'[i].read
     /\ \A t \in 1..MaxTasks :
          tasks'[t].pc \in {"deliver", "update"} => tasks'[t].msg \in DOMAIN messages']_vars

C9_Witness ==
  /\ lastDone.kind = "send"
  /\ lastDone.result = "sent"
  /\ lastDone.online
  /\ messages[lastDone.msg].messageStatus = "delivered"
  /\ \E i \in DOMAIN messages : messages[i].messageStatus = "sent"

\* C10: a handled send_message emits exactly one of message_sent and
\* message_error to the sender's socket, nothing of the two before it ends,
\* and message_sent only for a message that is in the store.
Outcomes(task, event) == Count(task.out, ToSocket(task.sock, event))

C10_ExactlyOneOutcome ==
  /\ lastDone.kind = "send"
       => /\ Outcomes(lastDone, "message_sent") + Outcomes(lastDone, "message_error") = 1
          /\ Outcomes(lastDone, "message_sent") = 1
               => /\ lastDone.msg \in DOMAIN messages
                  /\ messages[lastDone.msg].sender = lastDone.user
                  /\ messages[lastDone.msg].receiver = lastDone.peer
  /\ \A t \in 1..MaxTasks :
       tasks[t].kind = "send"
         => Outcomes(tasks[t], "message_sent") + Outcomes(tasks[t], "message_error") = 0

C10_Witness ==
  /\ lastDone.kind = "send"
  /\ Outcomes(lastDone, "message_sent") = 1
  /\ lastDone.online
  /\ \E t \in 1..MaxTasks : tasks[t].kind = "send"

\* C11: a rejected send_message (invalid data, malformed or unknown receiver,
\* same role, blocked, prohibited content) emits one message_error to the
\* sender's socket and nothing else, and leaves the store, the block lists,
\* the rooms and the typing state as they were.
C11_RejectedSendOnlyTellsSender ==
  [][(lastDone'.kind = "send" /\ lastDone'.result = "rejected")
       => /\ lastDone'.out = <<ToSocket(lastDone'.sock, "message_error")>>
          /\ lastDone'.msg = 0
          /\ UNCHANGED <<messages, blockedUsers, rooms, activeTyping, tasks>>]_vars

C11_Witness ==
  /\ lastDone.kind = "send"
  /\ lastDone.result = "rejected"
  /\ lastDone.error = "Message contains prohibited content"
  /\ lastDone.peer = U2
  /\ lastDone.violations # <<>>

\* C12: when the timer of a typing key (s, r) fires, the key leaves the
\* typing state and exactly one user_typing {isTyping: false} goes to r.
C12_TypingExpiryNotifiesOnce ==
  lastDone.kind = "typing_timeout"
    => /\ <<lastDone.user, lastDone.peer>> \notin activeTyping
       /\ Count(lastDone.out, ToUser(lastDone.peer, "user_typing_false")) = 1

\* C13: a connection's registration leaves its user online with that
\* connection's id as the user's socket id; its disconnection leaves the user
\* offline, with the user's record and the connection's reverse mapping gone.
C13_ConnectThenOnlineDisconnectThenOffline ==
  /\ lastDone.kind = "connect"
       => /\ isUserOnline(lastDone.user)
          /\ onlineUsers[lastDone.user] = lastDone.sock
          /\ userSockets[lastDone.sock] = lastDone.user
  /\ lastDone.kind = "disconnect"
       => /\ ~isUserOnline(lastDone.user)
          /\ onlineUsers[lastDone.user] = NoSocket
          /\ lastActivity[lastDone.user] = 0
          /\ userSockets[lastDone.sock] = NoId

\* U1's first connection closes after its second one opened.
C13_Witness ==
  /\ lastDone.kind = "disconnect"
  /\ lastDone.sock = "s1"
  /\ Tab \in connected
  /\ ~isUserOnline(U1)
  /\ isUserOnline(U2)

\* C14: a sweep removes the presence records whose last activity is older
\* than the threshold and no other, changes nothing of the records it leaves,
\* and changes no message, whatever connects, touches and disconnects ran
\* before it.
C14_SweepRemovesOnlyInactive ==
  [][lastDone'.kind = "sweep"
       => /\ \A u \in Users :
               IF isUserOnline(u) /\ clock - lastActivity[u] > InactiveThreshold
               THEN onlineUsers'[u] = NoSocket
               ELSE onlineUsers'[u] = onlineUsers[u] /\ lastActivity'[u] = lastActivity[u]
          /\ messages' = messages
          /\ connected' = connected]_vars

\* A sweep that removed U1's record and left U2's, touched since it
\* connected, with a message in the store.
C14_Witness ==
  /\ lastDone.kind = "sweep"
  /\ lastDone.changed = 1
  /\ ~isUserOnline(U1) /\ "s1" \in connected
  /\ isUserOnline(U2) /\ lastActivity[U2] > 0
  /\ clock - lastActivity[U2] <= InactiveThreshold
  /\ messages # <<>>

\* C15: no two handler invocations of one connection are in progress at
\* once: an event of a connection is handled to its end, awaited persistence
\* included, before the next event of that connection is taken up.
C15_OneEventAtATimePerConnection ==
  /\ \A t \in Busy, o \in Busy :
       (t # o /\ tasks[t].sock \in AllSockets) => tasks[t].sock # tasks[o].sock
  /\ \A t \in Busy :
       (lastDone.sock \in AllSockets /\ lastDone.kind \notin {"connect", "disconnect"})
         => tasks[t].sock # lastDone.sock

\* C16: within a conversation, the messages in ascending timestamp order (the
\* order a reader retrieves them in) are the messages in the order their
\* creates committed.
Conversation(conversationId) ==
  {i \in DOMAIN messages : messages[i].conversationId = conversationId}

C16_ReadOrderIsWriteOrder ==
  \A i \in DOMAIN messages :
    \A j \in Conversation(messages[i].conversationId) :
      i < j => messages[i].timestamp < messages[j].timestamp

\* C17: createConversationId(a, b) = createConversationId(b, a) for all ids;
\* it is the smaller id, one underscore, the larger id; two different
\* unordered pairs of user ids never get the same conversation id; and the
\* room a socket joined for a counterpart is the room of that pair.
IdSpace == Users \cup {Ghost, <<"b", "1">>, <<"a", "2">>, BadId}
UserIdSpace == {id \in IdSpace : IsObjectId(id)}

SortedJoin(a, b, joined) ==
  \E lo \in {a, b}, hi \in {a, b} :
    /\ {lo, hi} = {a, b}
    /\ ~LexLess(hi, lo)
    /\ joined = lo \o <<"_">> \o hi
    /\ Len(joined) = Len(a) + Len(b) + 1

C17_ConversationIdCommutes ==
  /\ \A a \in IdSpace, b \in IdSpace :
       /\ createConversationId(a, b) = createConversationId(b, a)
       /\ SortedJoin(a, b, createConversationId(a, b))
  /\ \A a \in UserIdSpace, b \in UserIdSpace, c \in UserIdSpace, d \in UserIdSpace :
       createConversationId(a, b) = createConversationId(c, d) => {a, b} = {c, d}
  /\ (lastDone.kind = "join" /\ lastDone.result = "joined")
       => /\ createConversationId(lastDone.peer, lastDone.user) \in rooms[lastDone.sock]
          /\ SortedJoin(lastDone.user, lastDone.peer,
                        createConversationId(lastDone.user, lastDone.peer))

\* U1 and U2 have each joined the conversation with the other: one room.
C17_Witness ==
  /\ lastDone.kind = "join"
  /\ lastDone.result = "joined"
  /\ lastDone.sock = "s2"
  /\ lastDone.peer = U1
  /\ rooms["s1"] \cap rooms["s2"] = {<<"a", "1", "_", "b", "2">>}

\* C18: a delete of an absent message is answered NotFound (404), a delete by
\* someone who is not the sender is answered Forbidden (403), neither changes
\* the store, and a message is marked deleted only by its sender.
C18_DeleteFailuresAreDistinct ==
  [][/\ (lastDone'.kind = "rest_delete" /\ IsMessageId(lastDone'.msg)
           /\ lastDone'.msg \notin DOMAIN messages)
          => /\ lastDone'.out = <<Respond(lastDone'.user, "404")>>
             /\ messages' = messages
     /\ (lastDone'.kind = "rest_delete" /\ lastDone'.msg \in DOMAIN messages
           /\ messages[lastDone'.msg].sender # lastDone'.user)
          => /\ lastDone'.out = <<Respond(lastDone'.user, "403")>>
             /\ messages' = messages
     /\ \A i \in DOMAIN messages :
          (messages'[i].deleted /\ ~messages[i].deleted)
            => /\ lastDone'.kind = "rest_delete"
               /\ lastDone'.user = messages[i].sender]_vars

\* C19: the messages a conversation read returns, its pagination total and
\* the unread count hold and count no message whose deleted flag is true.
C19_ReadsExcludeDeleted ==
  [][/\ \A t \in 1..MaxTasks :
          (tasks'[t].kind = "rest_read" /\ tasks[t].kind # "rest_read")
            => \A i \in Range(tasks'[t].list) : ~messages[i].deleted
     /\ (lastDone'.kind = "rest_read" /\ lastDone'.result = "read")
          => lastDone'.total = CountFound(lastDone'.user, lastDone'.peer)
     /\ lastDone'.kind = "rest_unread"
          => lastDone'.total =
               Cardinality({i \in DOMAIN messages :
                              /\ messages[i].receiver = lastDone'.user
                              /\ ~messages[i].read
                              /\ ~messages[i].deleted})]_vars

\* C20: every rejected socket operation emits one error event (error,
\* message_error) with a message to the socket it came from, and leaves the
\* connection open.
ErrorEvents == {"error", "message_error"}

C20_RejectionsEmitError ==
  [][(lastDone'.result = "rejected" /\ lastDone'.sock \in AllSockets)
       => /\ \E e \in ErrorEvents :
               Count(lastDone'.out, ToSocket(lastDone'.sock, e)) = 1
          /\ lastDone'.error # ""
          /\ connected' = connected]_vars

\* C21: every ordered (sender, receiver) pair has at most one pending typing
\* timeout, and it is the one activeTyping holds for the pair: a typing_start
\* of a pair that is already typing clears the timeout before it arms the new
\* one, so a timeout that fires is never one that was cleared.
C21_OneTimerPerTypingKey ==
  /\ [](/\ \A a \in timers : \A b \in timers : a.key = b.key => a = b
        /\ \A timer \in timers : timer.held /\ timer.key \in activeTyping)
  /\ [][lastDone'.kind = "typing_timeout"
          => \E timer \in timers :
               /\ timer.held
               /\ timer.sock = lastDone'.sock
               /\ timer.key = <<lastDone'.user, lastDone'.peer>>
               /\ timer \notin timers']_vars

C21_Witness ==
  /\ lastDone.kind = "typing_start"
  /\ lastDone.sock = Tab
  /\ lastDone.changed = 1
  /\ Timer(<<U1, U2>>, Tab) \in timers

\* C22: a send_message that persists has cleared the typing state of
\* (sender, receiver) before the delivered upgrade commits and before
\* message_sent: user_typing {isTyping: false} is out when the status is
\* written, it precedes message_sent, and the handler leaves no entry and no
\* timeout of the pair.
C22_SendClearsTypingFirst ==
  [][/\ \A t \in 1..MaxTasks :
          (tasks[t].kind = "send" /\ tasks[t].pc = "update" /\ tasks'[t].pc # "update")
            => Count(tasks[t].out, ToUser(tasks[t].peer, "user_typing_false")) = 1
     /\ (lastDone'.kind = "send" /\ lastDone'.result = "sent")
          => /\ <<lastDone'.user, lastDone'.peer>> \notin activeTyping'
             /\ \A timer \in timers' : timer.key # <<lastDone'.user, lastDone'.peer>>
             /\ \E i \in DOMAIN lastDone'.out : \E j \in DOMAIN lastDone'.out :
                  /\ i < j
                  /\ lastDone'.out[i] = ToUser(lastDone'.peer, "user_typing_false")
                  /\ lastDone'.out[j] = ToSocket(lastDone'.sock, "message_sent")]_vars

\* C23: an inbound protocol event of a connection (here join_conversation,
\* leave_conversation, typing_start, typing_stop, mark_as_read, each handled
\* in one step) leaves the last-activity timestamp of the connection's user
\* at the time of the event.
InboundKinds == {"join", "leave", "typing_start", "typing_stop", "mark"}

C23_InboundEventTouches ==
  [][(lastDone'.kind \in InboundKinds /\ isUserOnline(lastDone'.user))
       => lastActivity'[lastDone'.user] = clock']_vars

\* C24: a join_conversation of a caller who is in the counterpart's block
\* list does not add the connection to the conversation room.
C24_BlockedCallerDoesNotJoin ==
  [][(/\ lastDone'.kind = "join"
      /\ lastDone'.peer \in Users
      /\ lastDone'.user \in Range(blockedUsers[lastDone'.peer]))
       => /\ lastDone'.result # "joined"
          /\ createConversationId(lastDone'.user, lastDone'.peer)
               \in rooms'[lastDone'.sock]
             => createConversationId(lastDone'.user, lastDone'.peer)
                  \in rooms[lastDone'.sock]]_vars

\* C25: a block_user that ends as "blocked" takes the blocker's connection
\* out of the room of the conversation and emits conversation_blocked once to
\* the target's user channel; one that ends as "unblocked" emits no
\* conversation_blocked and leaves the rooms of the connection as they were.
C25_BlockLeavesRoomAndNotifies ==
  [][(lastDone'.kind = "block" /\ lastDone'.result \in {"blocked", "unblocked"})
       => LET blocked == ToUser(lastDone'.peer, "conversation_blocked")
              conversationId == createConversationId(lastDone'.user, lastDone'.peer)
          IN IF lastDone'.result = "blocked"
             THEN /\ conversationId \notin rooms'[lastDone'.sock]
                  /\ Count(lastDone'.out, blocked) = 1
                  /\ \A i \in DOMAIN lastDone'.out :
                       lastDone'.out[i].event = "conversation_blocked"
                         => lastDone'.out[i] = blocked
             ELSE /\ \A i \in DOMAIN lastDone'.out :
                       lastDone'.out[i].event # "conversation_blocked"
                  /\ rooms' = rooms]_vars

C25_Witness ==
  /\ lastDone.kind = "block"
  /\ lastDone.result = "blocked"
  /\ lastDone.user = U1 /\ lastDone.peer = U2
  /\ lastDone.changed = 1
  /\ createConversationId(U2, U1) \in rooms["s2"]
  /\ createConversationId(U1, U2) \notin rooms["s1"]

\* C26: when a disconnect has been handled, no typing timeout armed through
\* that connection is pending, and the timeouts armed through other
\* connections are still running.
C26_DisconnectClearsOwnTimers ==
  [][lastDone'.kind = "disconnect"
       => /\ \A timer \in timers' : timer.sock # lastDone'.sock
          /\ \A timer \in timers : timer.sock # lastDone'.sock => timer \in timers']_vars

\* C27: the verdict of analyzeContentSafety depends on the text alone: every
\* send_message that reaches the analyzer gets the score and the violations
\* a first call on that text gets, and is rejected exactly when that score is
\* below the threshold.
C27_VerdictDependsOnlyOnText ==
  (/\ lastDone.kind = "send"
   /\ lastDone.result = "sent"
        \/ lastDone.error = "Message contains prohibited content")
    => /\ lastDone.score = Score(lastDone.content)
       /\ lastDone.violations
            = analyzeContentSafety(lastDone.content, FreshIndex).violations
       /\ lastDone.result = "rejected" <=> Score(lastDone.content) < AcceptableScore

\* C28: a user with an open, registered connection is reported online, and
\* activity on an open connection leaves its user online: no disconnect of
\* another connection and no sweep puts such a user offline for good.
C28_OpenConnectionMeansOnline ==
  /\ [](\A s \in connected : userSockets[s] # NoId => isUserOnline(userSockets[s]))
  /\ [][lastDone'.kind = "activity" => onlineUsers'[lastDone'.user] # NoSocket]_vars

\* C29: once every update that connect, disconnect and the sweep issued has
\* committed, the stored isOnline of every user equals isUserOnline(user).
C29_PersistedFlagAgreesWhenQuiet ==
  writes = {} => \A u \in Users : isOnline[u] = isUserOnline(u)

\* C30: a toggle that succeeds flips the membership of the target in the
\* caller's block list, so that two toggles restore it, whatever the
\* interleaving of their reads and saves; and no block list holds a user
\* more than once.
C30_ToggleIsInvolution ==
  /\ [](\A u \in Users : \A t \in Users : Count(blockedUsers[u], t) <= 1)
  /\ [][(/\ lastDone'.kind \in {"block", "rest_block"}
         /\ lastDone'.result \in {"blocked", "unblocked"})
          => /\ (lastDone'.peer \in Range(blockedUsers'[lastDone'.user]))
                  # (lastDone'.peer \in Range(blockedUsers[lastDone'.user]))
             /\ lastDone'.result = "blocked"
                  <=> lastDone'.peer \in Range(blockedUsers'[lastDone'.user])]_vars

====
